---- MODULE Spec2Model ----
(***************************************************************************)
(* Model of the arbitrage dashboard's graph builder                        *)
(* (trading/algorithms/utils.py) and of its run orchestrator and polling   *)
(* callbacks over the per-session FileSystemStore cache                    *)
(* (backend/web/pages/dashboard.py).                                       *)
(***************************************************************************)
EXTENDS Integers, Sequences, FiniteSets, TLC

VARIABLES
    gb,          \* the call of assets_to_edges_list: position, locals, result
    quoteTable,  \* what the exchanger has answered so far, per (from, to) asset pair
    cache,       \* per session, the keys stored in its FileSystemStore
    run,         \* per click of the run button, update_report_state's position and
                 \* locals; `published` lists the run_progress values it has set
    poller       \* per request thread, the callback it runs, its position, the
                 \* values it has read (`seen`) and rendered (`out`)

gvars == <<gb, quoteTable>>

dvars == <<cache, run, poller>>

vars == <<gb, quoteTable, cache, run, poller>>

(***************************************************************************)
(* Bounds of the model.                                                    *)
(***************************************************************************)
\* longest asset list handed to assets_to_edges_list
MaxAssets == 3

\* largest timestamp of a run request
MaxTime == 1

\* largest primary granularity of a run request
MaxGran == 2

(***************************************************************************)
(* Graph builder: assets_to_edges_list.                                    *)
(***************************************************************************)
Platforms == {"X", "Y"}

Symbols == {"BTC", "ETH"}

\* trading.asset.Asset: a (platform, symbol) pair
Asset == [platform : Platforms, symbol : Symbols]

AssetLists == UNION {[1..n -> Asset] : n \in 0..MaxAssets}

\* what one call of exchanger.exchange(timestamp, from_asset, to_asset, timespan)
\* can give back: a number (positive, zero or negative), None, or an exception
Rates == {-1, 0, 2}

QuoteRate(r) == <<"rate", r>>

QuoteNone == <<"None">>

QuoteRaise == <<"raise">>

QuoteUnasked == <<"unasked">>

QuoteOutcomes == {QuoteRate(r) : r \in Rates} \cup {QuoteNone, QuoteRaise}

\* np.log of a number: ln(r) for r > 0, -inf for 0 (with a warning), nan below 0
NpLog(r) == IF r > 0 THEN <<"ln", r>> ELSE IF r = 0 THEN <<"-inf", 0>> ELSE <<"nan", 0>>

\* np.log raises TypeError on None; a failed lookup raises before np.log is called
EdgeWeightRaises(q) == q = QuoteNone \/ q = QuoteRaise

\* f'{asset.platform}_{asset.symbol}'
AssetKey(a) == <<a.platform, "_", a.symbol>>

\* Skip with `or` in place of `and` in the second test
SkipOr(assets, from_node, to_node) ==
    \/ from_node = to_node
    \/ (assets[from_node + 1].platform # assets[to_node + 1].platform
        \/ assets[from_node + 1].symbol # assets[to_node + 1].symbol)

\* the two `continue` tests of the inner loop; node indices are 0-based as in enumerate()
Skip(assets, from_node, to_node) ==
    \/ from_node = to_node
    \/ (assets[from_node + 1].platform # assets[to_node + 1].platform
        /\ assets[from_node + 1].symbol # assets[to_node + 1].symbol)

Edge(from_asset, from_node, to_asset, to_node, weight) ==
    [from_asset |-> from_asset, from_node |-> from_node,
     to_asset |-> to_asset, to_node |-> to_node, weight |-> weight]

\* `results` lists what the earlier calls on the same arguments returned
GbIdle ==
    [pc |-> "idle", assets |-> <<>>, from_node |-> 0, to_node |-> 0,
     edges_list |-> <<>>, nodes_mapping |-> {}, results |-> <<>>]

\* the call: edges_list = [], nodes_mapping = dict(), the outer loop starts
GbCall ==
    /\ gb.pc = "idle"
    /\ \E assets \in AssetLists :
         gb' = [GbIdle EXCEPT !.pc = "outer", !.assets = assets]
    /\ UNCHANGED <<quoteTable, dvars>>

\* nodes_mapping[key] = from_node overwrites an earlier entry of the same key
MappingSet(m, key, node) == {e \in m : e[1] # key} \cup {<<key, node>>}

\* one turn of `for from_node, from_asset in enumerate(assets)`, or the return,
\* on the locals g of a call
GbOuterStep(g) ==
    IF g.from_node >= Len(g.assets)
    THEN [g EXCEPT !.pc = "returned"]
    ELSE [g EXCEPT !.pc = "inner", !.to_node = 0,
                   !.nodes_mapping =
                       MappingSet(@, AssetKey(g.assets[g.from_node + 1]), g.from_node)]

\* the inner loop is at a pair of assets it does not skip: exchanger.exchange
\* is called for it
GbAsks(g) == g.to_node < Len(g.assets) /\ ~Skip(g.assets, g.from_node, g.to_node)

\* the (from_asset, to_asset) pair the inner loop is at
GbPair(g) == <<g.assets[g.from_node + 1], g.assets[g.to_node + 1]>>

\* one turn of `for to_node, to_asset in enumerate(assets)` on the locals g of a
\* call; q is the exchanger's answer when the turn asks for a quote
GbInnerStep(g, q) ==
    IF g.to_node >= Len(g.assets)
    THEN [g EXCEPT !.pc = "outer", !.from_node = @ + 1]
    ELSE IF Skip(g.assets, g.from_node, g.to_node)
    THEN [g EXCEPT !.to_node = @ + 1]
    ELSE IF EdgeWeightRaises(q)
    THEN [g EXCEPT !.pc = "raised"]
    ELSE [g EXCEPT
            !.to_node = @ + 1,
            !.edges_list =
                Append(@, Edge(GbPair(g)[1], g.from_node, GbPair(g)[2],
                               g.to_node, NpLog(q[2])))]

GbOuter ==
    /\ gb.pc = "outer"
    /\ gb' = GbOuterStep(gb)
    /\ UNCHANGED <<quoteTable, dvars>>

\* the exchanger answers a pair it was asked before as it did before
GbInner ==
    /\ gb.pc = "inner"
    /\ UNCHANGED dvars
    /\ IF GbAsks(gb)
       THEN \E q \in QuoteOutcomes :
              /\ quoteTable[GbPair(gb)] \in {QuoteUnasked, q}
              /\ quoteTable' = [quoteTable EXCEPT ![GbPair(gb)] = q]
              /\ gb' = GbInnerStep(gb, q)
       ELSE /\ gb' = GbInnerStep(gb, QuoteUnasked)
            /\ UNCHANGED quoteTable

\* a call run from its position to its end against the quote table `table`
RECURSIVE GbRunToEnd(_, _)
GbRunToEnd(g, table) ==
    IF g.pc = "outer" THEN GbRunToEnd(GbOuterStep(g), table)
    ELSE IF g.pc = "inner"
    THEN GbRunToEnd(GbInnerStep(g, IF GbAsks(g) THEN table[GbPair(g)] ELSE QuoteUnasked),
                    table)
    ELSE g

\* what a call returned: the pair (edges_list, nodes_mapping)
GbResult == [edges_list |-> gb.edges_list, nodes_mapping |-> gb.nodes_mapping]

\* GbCallAgain with an edges_list that outlives the call
GbCallAgainStale ==
    /\ gb.pc = "returned"
    /\ gb.results = <<>>
    /\ gb' = GbRunToEnd([GbIdle EXCEPT !.pc = "outer", !.assets = gb.assets,
                                       !.edges_list = gb.edges_list,
                                       !.results = Append(gb.results, GbResult)],
                        quoteTable)
    /\ UNCHANGED <<quoteTable, dvars>>

\* the caller makes a second call with the same assets, timestamp and timespan,
\* and the call runs to its end against the same quote table: the locals
\* edges_list and nodes_mapping are created anew
GbCallAgain ==
    /\ gb.pc = "returned"
    /\ gb.results = <<>>
    /\ gb' = GbRunToEnd([GbIdle EXCEPT !.pc = "outer", !.assets = gb.assets,
                                       !.results = Append(gb.results, GbResult)],
                        quoteTable)
    /\ UNCHANGED <<quoteTable, dvars>>

\* nodes_to_assets(nodes, assets): the assets at the given node indices
NodesToAssets(nodes, assets) == [i \in DOMAIN nodes |-> assets[nodes[i] + 1]]

(***************************************************************************)
(* The session cache: FileSystemStore(f'./cache/{session_id}').            *)
(***************************************************************************)
\* session ids handed out by serve_layout (uuid4 strings)
Sessions == {"s1", "s2"}

Keys == {"graphs_history", "report_table", "prices", "run_progress"}

None == <<"None">>

\* fsc.get(key): the stored value, None when the key is not stored
FscGet(c, key) == IF key \in DOMAIN c THEN c[key] ELSE None

\* fsc.clear(): no key is stored any more
FscClear(c) == [k \in {} |-> None]

\* fsc.set(key, value)
FscSet(c, key, value) ==
    [k \in DOMAIN c \cup {key} |-> IF k = key THEN value ELSE c[k]]

(***************************************************************************)
(* Values held by the cache.  A report, a price history and a graph are    *)
(* named by the run and the step that produced them; a number is the       *)
(* exact quotient n/d in lowest terms (Python floats keep the order of     *)
(* these quotients, and 0 == 0.0, 100 == 100.0).                           *)
(***************************************************************************)
ReportTable(r, k) == <<"df", r, k>>

PricesData(r, k) == <<"prices", r, k>>

Graph(r, k) == <<"graph", r, k>>

GraphsList(seq) == <<"list", seq>>

RECURSIVE Gcd(_, _)
Gcd(a, b) == IF b = 0 THEN a ELSE Gcd(b, a % b)

Abs(x) == IF x < 0 THEN -x ELSE x

Num(n, d) ==
    LET g == Gcd(Abs(n), Abs(d))
        sgn == IF d < 0 THEN -1 ELSE 1
    IN <<"num", (sgn * n) \div g, (sgn * d) \div g>>

NumLeq(a, b) == a[2] * b[3] <= b[2] * a[3]

Zero == Num(0, 1)

Hundred == Num(100, 1)

\* Progress with the operands of the subtraction in the numerator taken from the
\* wrong end: the share of the range still to come
ProgressReversed(run_end_timestamp, start_timestamp, end_timestamp) ==
    Num((end_timestamp - run_end_timestamp) * 100, end_timestamp - start_timestamp)

\* (run_res['end_timestamp'] - start_timestamp) / (end_timestamp - start_timestamp) * 100
Progress(run_end_timestamp, start_timestamp, end_timestamp) ==
    Num((run_end_timestamp - start_timestamp) * 100, end_timestamp - start_timestamp)

(***************************************************************************)
(* reset_cache(fsc): five cache operations, one step each.                 *)
(***************************************************************************)
ResetPcs == {"reset_get", "reset_clear", "reset_set_report_table",
             "reset_set_run_progress", "reset_set_graphs_history"}

\* the step of reset_cache at position pc on cache c, with reset_cache's local
\* variable graphs_history in `local`
ResetCacheStep(pc, c, local) ==
    CASE pc = "reset_get" ->
           [pc |-> "reset_clear", cache |-> c, local |-> FscGet(c, "graphs_history")]
      [] pc = "reset_clear" ->
           [pc |-> "reset_set_report_table", cache |-> FscClear(c), local |-> local]
      [] pc = "reset_set_report_table" ->
           [pc |-> "reset_set_run_progress",
            cache |-> FscSet(c, "report_table", None), local |-> local]
      [] pc = "reset_set_run_progress" ->
           [pc |-> "reset_set_graphs_history",
            cache |-> FscSet(c, "run_progress", None), local |-> local]
      [] pc = "reset_set_graphs_history" ->
           [pc |-> "reset_done",
            cache |-> FscSet(c, "graphs_history", local), local |-> None]

\* reset_cache run from its first to its last line with nothing in between
ResetCache(c) ==
    LET s1 == ResetCacheStep("reset_get", c, None)
        s2 == ResetCacheStep(s1.pc, s1.cache, s1.local)
        s3 == ResetCacheStep(s2.pc, s2.cache, s2.local)
        s4 == ResetCacheStep(s3.pc, s3.cache, s3.local)
        s5 == ResetCacheStep(s4.pc, s4.cache, s4.local)
    IN s5.cache

(***************************************************************************)
(* update_report_state: the run orchestrator, one process per click.       *)
(***************************************************************************)
\* the clicks of the run button, numbered in the order they arrive
Runs == {1, 2}

Times == 0..MaxTime

Grans == 1..MaxGran

\* json_portfolio: well formed, or not JSON at all
Portfolios == {"ok", "bad_json"}

RunIdle ==
    [pc |-> "idle", session_id |-> "s1", start_timestamp |-> 0, end_timestamp |-> 0,
     primary_granularity |-> 1, json_portfolio |-> "ok",
     local |-> None, t |-> 0, step |-> 0,
     report_data |-> None, prices_data |-> None, graphs_history |-> <<>>,
     published |-> <<>>]

\* the callback fires with run_n_clicks not None (a None click count raises
\* PreventUpdate and changes nothing); lines 123-138 build the controls state
\* and open the store.  Runs are numbered in the order of their clicks.
RunClick(r) ==
    /\ run[r].pc = "idle"
    /\ IF r = 1 THEN TRUE ELSE run[r - 1].pc # "idle"
    /\ \E sid \in Sessions, start \in Times, end \in Times, gran \in Grans,
          portfolio \in Portfolios :
         run' = [run EXCEPT ![r] =
                    [RunIdle EXCEPT !.pc = "reset_get", !.session_id = sid,
                                    !.start_timestamp = start, !.end_timestamp = end,
                                    !.primary_granularity = gran,
                                    !.json_portfolio = portfolio]]
    /\ UNCHANGED <<cache, poller, gvars>>

\* line 139: one step of reset_cache(fsc)
RunResetCache(r) ==
    /\ run[r].pc \in ResetPcs
    /\ UNCHANGED <<poller, gvars>>
    /\ LET s == ResetCacheStep(run[r].pc, cache[run[r].session_id], run[r].local)
       IN /\ cache' = [cache EXCEPT ![run[r].session_id] = s.cache]
          /\ run' = [run EXCEPT ![r].pc = IF s.pc = "reset_done" THEN "start" ELSE s.pc,
                                ![r].local = s.local]

\* lines 141-168: the collaborators are built, the timestamps parsed, the locals
\* initialised and the strategy called; json.loads(json_portfolio) raises on
\* text that is not JSON
RunStart(r) ==
    /\ run[r].pc = "start"
    /\ run' = [run EXCEPT
                 ![r].pc = IF run[r].json_portfolio = "bad_json" THEN "failed" ELSE "next",
                 ![r].t = run[r].start_timestamp]
    /\ UNCHANGED <<cache, poller, gvars>>

\* StrategyValid with `>=` in place of `>`: an empty range is let through
StrategyValidLax(start_timestamp, end_timestamp, portfolio) ==
    end_timestamp >= start_timestamp /\ portfolio = "ok"

\* the strategy's validation of the run request (spec 4.4, 6, 7)
StrategyValid(start_timestamp, end_timestamp, portfolio) ==
    end_timestamp > start_timestamp /\ portfolio = "ok"

\* the strategy has a step left: t runs from start to end by the granularity
StrategyHasStep(t, end_timestamp) == t <= end_timestamp

\* the timestamp of the step after t
StrategyAdvance(t, granularity) == t + granularity

\* line 158, the loop head: the strategy yields its next result, or its stream
\* ends, or it rejects the run request; lines 169-171 take the result apart
RunNext(r) ==
    /\ run[r].pc = "next"
    /\ LET rr == run[r] IN
       IF ~StrategyValid(rr.start_timestamp, rr.end_timestamp, rr.json_portfolio)
       THEN run' = [run EXCEPT ![r].pc = "failed"]
       ELSE IF StrategyHasStep(rr.t, rr.end_timestamp)
       THEN run' = [run EXCEPT
                      ![r].pc = "set_graphs_history",
                      ![r].step = rr.step + 1,
                      ![r].report_data = ReportTable(r, rr.step + 1),
                      ![r].prices_data = PricesData(r, rr.step + 1),
                      ![r].graphs_history = Append(rr.graphs_history, Graph(r, rr.step + 1))]
       ELSE run' = [run EXCEPT ![r].pc = "return"]
    /\ UNCHANGED <<cache, poller, gvars>>

\* what run_res['end_timestamp'] may hold when nothing is known of the strategy:
\* a timestamp of the run's range, one before its start or one past its end
ReportedTimes == (-1)..(MaxTime + 1)

\* line 158 with a strategy of which only the shape of its results is known: for
\* a request it accepts, the stream yields a result with any end_timestamp, or
\* ends; lines 169-171 take the result apart
RunNextAny(r) ==
    /\ run[r].pc = "next"
    /\ LET rr == run[r] IN
       IF ~StrategyValid(rr.start_timestamp, rr.end_timestamp, rr.json_portfolio)
       THEN run' = [run EXCEPT ![r].pc = "failed"]
       ELSE \/ run' = [run EXCEPT ![r].pc = "return"]
            \/ /\ rr.step < MaxTime + 1
               /\ \E reported \in ReportedTimes :
                    run' = [run EXCEPT
                              ![r].pc = "set_graphs_history",
                              ![r].t = reported,
                              ![r].step = rr.step + 1,
                              ![r].report_data = ReportTable(r, rr.step + 1),
                              ![r].prices_data = PricesData(r, rr.step + 1),
                              ![r].graphs_history =
                                  Append(rr.graphs_history, Graph(r, rr.step + 1))]
    /\ UNCHANGED <<cache, poller, gvars>>

\* line 172
RunSetGraphsHistory(r) ==
    /\ run[r].pc = "set_graphs_history"
    /\ UNCHANGED <<poller, gvars>>
    /\ cache' = [cache EXCEPT ![run[r].session_id] =
                    FscSet(@, "graphs_history", GraphsList(run[r].graphs_history))]
    /\ run' = [run EXCEPT ![r].pc = "set_report_table"]

\* line 173
RunSetReportTable(r) ==
    /\ run[r].pc = "set_report_table"
    /\ UNCHANGED <<poller, gvars>>
    /\ cache' = [cache EXCEPT ![run[r].session_id] =
                    FscSet(@, "report_table", run[r].report_data)]
    /\ run' = [run EXCEPT ![r].pc = "set_prices"]

\* line 174
RunSetPrices(r) ==
    /\ run[r].pc = "set_prices"
    /\ UNCHANGED <<poller, gvars>>
    /\ cache' = [cache EXCEPT ![run[r].session_id] =
                    FscSet(@, "prices", run[r].prices_data)]
    /\ run' = [run EXCEPT ![r].pc = "set_run_progress"]

\* lines 175-176; run_res['end_timestamp'] is the timestamp t of the step, and the
\* strategy moves on to the next timestamp when it is resumed.  The division
\* raises ZeroDivisionError when end_timestamp = start_timestamp.
RunSetRunProgress(r) ==
    /\ run[r].pc = "set_run_progress"
    /\ UNCHANGED <<poller, gvars>>
    /\ LET rr == run[r] IN
       IF rr.end_timestamp = rr.start_timestamp
       THEN /\ run' = [run EXCEPT ![r].pc = "failed"]
            /\ UNCHANGED <<cache, poller, gvars>>
       ELSE LET value == Progress(rr.t, rr.start_timestamp, rr.end_timestamp) IN
            /\ cache' = [cache EXCEPT ![rr.session_id] = FscSet(@, "run_progress", value)]
            /\ run' = [run EXCEPT
                         ![r].pc = "next",
                         ![r].t = StrategyAdvance(rr.t, rr.primary_granularity),
                         ![r].published = Append(rr.published, value)]

\* lines 178-183: graphs_history[-1] raises IndexError on an empty list
RunReturn(r) ==
    /\ run[r].pc = "return"
    /\ run' = [run EXCEPT
                 ![r].pc = IF run[r].graphs_history = <<>> THEN "failed" ELSE "done"]
    /\ UNCHANGED <<cache, poller, gvars>>

RunStep(r) ==
    \/ RunClick(r)
    \/ RunResetCache(r)
    \/ RunStart(r)
    \/ RunNext(r)
    \/ RunSetGraphsHistory(r)
    \/ RunSetReportTable(r)
    \/ RunSetPrices(r)
    \/ RunSetRunProgress(r)
    \/ RunReturn(r)

\* update_report_state over a strategy of which only the shape of its results
\* is known
RunAnyStep(r) ==
    \/ RunClick(r)
    \/ RunResetCache(r)
    \/ RunStart(r)
    \/ RunNextAny(r)
    \/ RunSetGraphsHistory(r)
    \/ RunSetReportTable(r)
    \/ RunSetPrices(r)
    \/ RunSetRunProgress(r)
    \/ RunReturn(r)

(***************************************************************************)
(* The polling callbacks and on_page_load, run by the server's request     *)
(* threads: one process per thread, one callback at a time.                *)
(***************************************************************************)
Pollers == {1}

\* update_running_slider is the first callback named update_running (lines
\* 244-254), update_running the second (256-276)
Callbacks == {"on_page_load", "update_report_table", "update_run_progress",
              "update_running_slider", "update_running"}

\* values of the step slider
Steps == 0..MaxTime

PollerIdle ==
    [pc |-> "idle", cb |-> "none", session_id |-> "s1", step |-> 0,
     local |-> None, seen |-> <<>>, out |-> <<>>, status |-> "none"]

FirstPc(cb) ==
    CASE cb = "on_page_load" -> "reset_get"
      [] cb = "update_report_table" -> "read_report_table"
      [] cb = "update_run_progress" -> "read_run_progress"
      [] cb = "update_running_slider" -> "read_network"
      [] cb = "update_running" -> "read_step_control"

\* a request arrives: the callback opens the store of its session
PollStart(p) ==
    /\ poller[p].pc = "idle"
    /\ \E cb \in Callbacks, sid \in Sessions, step \in Steps :
         /\ cb \in {"update_running_slider", "update_running"} \/ step = 0
         /\ poller' = [poller EXCEPT ![p] =
                          [PollerIdle EXCEPT !.pc = FirstPc(cb), !.cb = cb,
                                             !.session_id = sid, !.step = step]]
    /\ UNCHANGED <<cache, run, gvars>>

\* the callback ends: returned, PreventUpdate or IndexError
PollEnd(pl, status) == [pl EXCEPT !.pc = "idle", !.status = status]

\* update_report_table, lines 193-198
PollReportTable(p) ==
    /\ poller[p].pc = "read_report_table"
    /\ LET data == FscGet(cache[poller[p].session_id], "report_table")
           pl == [poller[p] EXCEPT !.seen = <<data>>]
       IN poller' = [poller EXCEPT ![p] =
                        IF data = None
                        THEN PollEnd(pl, "PreventUpdate")
                        ELSE PollEnd([pl EXCEPT !.out = <<data>>], "returned")]
    /\ UNCHANGED <<cache, run, gvars>>

\* min(value, 100)
MinHundred(value) == IF NumLeq(value, Hundred) THEN value ELSE Hundred

\* what update_run_progress hands to create_progress_bar for the value it read
RunProgressOutput(value) == IF value = None THEN Zero ELSE MinHundred(value)

\* whether update_run_progress resets the cache for the value it read
RunProgressResets(value) == value = None \/ MinHundred(value) = Hundred

\* update_run_progress, lines 208-219: the read of run_progress
PollRunProgress(p) ==
    /\ poller[p].pc = "read_run_progress"
    /\ LET value == FscGet(cache[poller[p].session_id], "run_progress")
           pl == [poller[p] EXCEPT !.seen = <<value>>]
       IN poller' = [poller EXCEPT ![p] =
                        IF RunProgressResets(value)
                        THEN [pl EXCEPT !.pc = "reset_get"]
                        ELSE PollEnd([pl EXCEPT !.out = <<RunProgressOutput(value)>>],
                                     "returned")]
    /\ UNCHANGED <<cache, run, gvars>>

\* PollResetCache on one store './cache' shared by every session
PollResetCacheShared(p) ==
    /\ poller[p].pc \in ResetPcs
    /\ LET pl == poller[p]
           s == ResetCacheStep(pl.pc, cache["s1"], pl.local)
           nxt == [pl EXCEPT !.pc = s.pc, !.local = s.local]
       IN /\ cache' = [cache EXCEPT !["s1"] = s.cache]
          /\ poller' = [poller EXCEPT ![p] =
                           IF s.pc # "reset_done" THEN nxt
                           ELSE IF pl.cb = "on_page_load"
                           THEN PollEnd(nxt, "PreventUpdate")
                           ELSE PollEnd([nxt EXCEPT !.out = <<RunProgressOutput(pl.seen[1])>>],
                                        "returned")]
    /\ UNCHANGED <<run, gvars>>

\* one step of reset_cache(fsc) in on_page_load (line 85, then PreventUpdate) or
\* in update_run_progress (lines 213, 218, then the progress bar is returned)
PollResetCache(p) ==
    /\ poller[p].pc \in ResetPcs
    /\ LET pl == poller[p]
           s == ResetCacheStep(pl.pc, cache[pl.session_id], pl.local)
           nxt == [pl EXCEPT !.pc = s.pc, !.local = s.local]
       IN /\ cache' = [cache EXCEPT ![pl.session_id] = s.cache]
          /\ poller' = [poller EXCEPT ![p] =
                           IF s.pc # "reset_done" THEN nxt
                           ELSE IF pl.cb = "on_page_load"
                           THEN PollEnd(nxt, "PreventUpdate")
                           ELSE PollEnd([nxt EXCEPT !.out = <<RunProgressOutput(pl.seen[1])>>],
                                        "returned")]
    /\ UNCHANGED <<run, gvars>>

\* data[graph_idx] of a Python list: an index from -len to len - 1 exists
IndexExists(list, graph_idx) == -Len(list) <= graph_idx /\ graph_idx < Len(list)

ListItem(list, graph_idx) ==
    IF graph_idx >= 0 THEN list[graph_idx + 1] ELSE list[Len(list) + graph_idx + 1]

\* the key read at each position of update_running and of its helpers
\* update_step_control, update_trades_predictions, update_trades, update_network
\* and update_prices (lines 278-308)
ReadKey(pc) ==
    CASE pc = "read_step_control" -> "report_table"
      [] pc = "read_trades_predictions" -> "report_table"
      [] pc = "read_trades" -> "report_table"
      [] pc = "read_network" -> "graphs_history"
      [] pc = "read_prices" -> "prices"

AfterRead(pc) ==
    CASE pc = "read_step_control" -> "read_trades_predictions"
      [] pc = "read_trades_predictions" -> "read_trades"
      [] pc = "read_trades" -> "read_network"
      [] pc = "read_network" -> "read_prices"
      [] pc = "read_prices" -> "idle"

ReadPcs == {"read_step_control", "read_trades_predictions", "read_trades",
            "read_network", "read_prices"}

\* one helper of update_running (lines 272-276), or update_network called by the
\* slider callback (line 254): the read, the None and empty-list tests, the render
PollRead(p) ==
    /\ poller[p].pc \in ReadPcs
    /\ LET pl == poller[p]
           data == FscGet(cache[pl.session_id], ReadKey(pl.pc))
           saw == [pl EXCEPT !.seen = Append(@, data)]
           last == pl.pc = "read_prices"
                     \/ (pl.pc = "read_network" /\ pl.cb = "update_running_slider")
           render(x) == IF last THEN PollEnd([saw EXCEPT !.out = Append(@, x)], "returned")
                        ELSE [saw EXCEPT !.out = Append(@, x), !.pc = AfterRead(pl.pc)]
       IN poller' = [poller EXCEPT ![p] =
                        IF data = None THEN PollEnd(saw, "PreventUpdate")
                        ELSE IF pl.pc # "read_network" THEN render(data)
                        ELSE IF Len(data[2]) = 0 THEN PollEnd(saw, "PreventUpdate")
                        ELSE IF ~IndexExists(data[2], pl.step) THEN PollEnd(saw, "IndexError")
                        ELSE render(ListItem(data[2], pl.step))]
    /\ UNCHANGED <<cache, run, gvars>>

PollStep(p) ==
    \/ PollStart(p)
    \/ PollReportTable(p)
    \/ PollRunProgress(p)
    \/ PollResetCache(p)
    \/ PollRead(p)

(***************************************************************************)
(* Specifications.                                                         *)
(***************************************************************************)
DInit ==
    /\ cache = [s \in Sessions |-> FscClear(<<>>)]
    /\ run = [r \in Runs |-> RunIdle]
    /\ poller = [p \in Pollers |-> PollerIdle]

GbInit ==
    /\ gb = GbIdle
    /\ quoteTable = [p \in Asset \X Asset |-> QuoteUnasked]

Init == GbInit /\ DInit

\* the graph builder alone
GNext == GbCall \/ GbCallAgain \/ GbOuter \/ GbInner

SpecGraph == Init /\ [][GNext]_vars

\* the run orchestrator alone: the runs of every session, no polling
RunsNext == \E r \in Runs : RunStep(r)

SpecRuns == Init /\ [][RunsNext]_vars

\* one run and the polling callbacks over the session caches
PollNext ==
    \/ \E r \in {1} : RunStep(r)
    \/ \E p \in Pollers : PollStep(p)

SpecPoll == Init /\ [][PollNext]_vars

\* one run over any strategy, and the polling callbacks
StreamNext ==
    \/ \E r \in {1} : RunAnyStep(r)
    \/ \E p \in Pollers : PollStep(p)

SpecStream == Init /\ [][StreamNext]_vars

(***************************************************************************)
(* Properties of the graph builder.                                        *)
(***************************************************************************)
SharePlatformOrSymbol(a, b) == a.platform = b.platform \/ a.symbol = b.symbol

HasEdge(i, j) ==
    \E k \in DOMAIN gb.edges_list :
        gb.edges_list[k].from_node = i /\ gb.edges_list[k].to_node = j

\* C1: in the returned edge list there is an edge from position i to position j
\* (i # j) exactly when assets[i] and assets[j] share the platform or the symbol;
\* no edge is a self-loop and no edge joins assets that differ in both.
C1_EdgeIffSharedPlatformOrSymbol ==
    gb.pc = "returned" =>
        /\ \A i, j \in 0..(Len(gb.assets) - 1) :
               i # j => (HasEdge(i, j) <=>
                            SharePlatformOrSymbol(gb.assets[i + 1], gb.assets[j + 1]))
        /\ \A k \in DOMAIN gb.edges_list :
               /\ gb.edges_list[k].from_node # gb.edges_list[k].to_node
               /\ SharePlatformOrSymbol(gb.edges_list[k].from_asset,
                                        gb.edges_list[k].to_asset)

\* C1 witness: a returned snapshot of three assets with an edge and with a pair
\* of assets that differ in both platform and symbol
C1_Witness ==
    /\ gb.pc = "returned"
    /\ Len(gb.assets) = 3
    /\ Len(gb.edges_list) > 0
    /\ \E i, j \in 0..2 :
          i # j /\ ~SharePlatformOrSymbol(gb.assets[i + 1], gb.assets[j + 1])

GoodQuote(q) == q[1] = "rate" /\ q[2] > 0

\* C2: a quote that is undefined, non-positive or whose lookup fails never aborts
\* the snapshot: the call returns, the edge of such a pair is left out and the
\* edge of every other eligible pair is there.
C2_BadQuoteOmitsOnlyThatEdge ==
    /\ gb.pc # "raised"
    /\ gb.pc = "returned" =>
          \A i, j \in 0..(Len(gb.assets) - 1) :
              (i # j /\ SharePlatformOrSymbol(gb.assets[i + 1], gb.assets[j + 1]))
                  => (HasEdge(i, j) <=>
                         GoodQuote(quoteTable[<<gb.assets[i + 1], gb.assets[j + 1]>>]))

(***************************************************************************)
(* Properties of the run orchestrator and the polling callbacks.           *)
(***************************************************************************)
\* the graph history a run has after its k-th step
HistoryOf(r, k) == GraphsList([i \in 1..k |-> Graph(r, i)])

\* what the i-th read of update_running gives when the cache holds the Run
\* State published by step k of run r
ExpectedRead(i, r, k) ==
    IF i <= 3 THEN ReportTable(r, k)
    ELSE IF i = 4 THEN HistoryOf(r, k)
    ELSE PricesData(r, k)

ConsistentReads(seen) ==
    \/ \A i \in DOMAIN seen : seen[i] = None
    \/ \E r \in Runs, k \in 1..(MaxTime + 1) :
          \A i \in DOMAIN seen : seen[i] = ExpectedRead(i, r, k)

\* C3: the values one execution of the polling callback update_running reads
\* from the session cache were all published by the same step of the same run,
\* or are all the reset value None.
C3_PollReadsOneRunState ==
    \A p \in Pollers :
        (poller[p].cb = "update_running" /\ poller[p].pc = "idle")
            => ConsistentReads(poller[p].seen)

PublishPcs == {"set_graphs_history", "set_report_table", "set_prices", "set_run_progress"}

\* run r is stale: a run of the same session that was clicked later has
\* finished its reset of the cache
Stale(r) ==
    \E n \in Runs :
        /\ n > r
        /\ run[n].session_id = run[r].session_id
        /\ run[n].pc \notin ({"idle"} \cup ResetPcs)

\* C4: once a newer run of the session has reset the cache, no publish of an
\* earlier run of that session changes the cache.
C4_StaleRunWritesDropped ==
    [][\A r \in Runs :
          (run[r].pc \in PublishPcs /\ Stale(r) /\ run'[r] # run[r])
              => cache' = cache]_vars

PollingCallbacks == {"update_report_table", "update_run_progress",
                     "update_running_slider", "update_running"}

\* C5: no step of update_report_table, update_run_progress or update_running
\* changes the value the cache gives for any key.
C5_PollersOnlyRead ==
    [][\A p \in Pollers :
          (poller[p].pc # "idle" /\ poller[p].cb \in PollingCallbacks
             /\ poller'[p] # poller[p])
              => \A s \in Sessions, k \in Keys :
                     FscGet(cache'[s], k) = FscGet(cache[s], k)]_vars

\* C6: the run_progress values one run publishes never decrease from one step
\* to the next.
C6_ProgressMonotone ==
    \A r \in Runs :
        \A i \in 1..(Len(run[r].published) - 1) :
            NumLeq(run[r].published[i], run[r].published[i + 1])

\* C6 witness: a run has published run_progress at two steps, the second value
\* larger than the first
C6_Witness ==
    \E r \in Runs :
        /\ Len(run[r].published) >= 2
        /\ run[r].published[1] # run[r].published[2]

\* C7: when a run completes, the last run_progress it published is exactly 100.
C7_FinalProgressHundred ==
    \A r \in Runs :
        run[r].pc = "done" =>
            /\ Len(run[r].published) > 0
            /\ run[r].published[Len(run[r].published)] = Hundred

CacheEmpty(c) == \A k \in Keys : FscGet(c, k) = None

\* C8: immediately after the reset at the start of update_report_state (the
\* step that ends reset_cache) the session cache holds no report, graph
\* history, prices or progress.
C8_ResetClearsRunState ==
    [][\A r \in Runs :
          (run[r].pc = "reset_set_graphs_history" /\ run'[r].pc = "start")
              => CacheEmpty(cache'[run[r].session_id])]_vars

\* C9: resetting twice leaves what resetting once leaves, and a reset of an
\* empty or already reset cache leaves every key without a value.
C9_ResetIdempotentLeavesEmpty ==
    \A s \in Sessions :
        /\ ResetCache(ResetCache(cache[s])) = ResetCache(cache[s])
        /\ (CacheEmpty(cache[s]) \/ cache[s] = ResetCache(cache[s]))
              => CacheEmpty(ResetCache(cache[s]))

\* C10: the progress bar update_run_progress returns when run_progress is absent
\* differs from the one it returns when run_progress is 0.
C10_EmptyDistinctFromZero ==
    \A p \in Pollers :
        (/\ poller[p].cb = "update_run_progress"
         /\ poller[p].pc = "idle"
         /\ poller[p].status = "returned"
         /\ poller[p].seen[1] = None)
            => poller[p].out[1] # RunProgressOutput(Zero)

\* the run request of run r is rejected: its range is empty or inverted, or its
\* portfolio is malformed
InvalidRequest(r) ==
    \/ run[r].end_timestamp <= run[r].start_timestamp
    \/ run[r].json_portfolio # "ok"

\* value v was produced by a step of run r
ProducedBy(v, r) ==
    \/ v[1] \in {"df", "prices"} /\ v[2] = r
    \/ v[1] = "list" /\ \E i \in DOMAIN v[2] : v[2][i][2] = r

EdgesNamePositions ==
    \A i \in DOMAIN gb.edges_list :
        LET e == gb.edges_list[i] IN
        /\ e.from_node \in 0..(Len(gb.assets) - 1)
        /\ e.to_node \in 0..(Len(gb.assets) - 1)
        /\ NodesToAssets(<<e.from_node, e.to_node>>, gb.assets) = <<e.from_asset, e.to_asset>>

\* C12: in the returned snapshot nodes_mapping maps the key of
\* assets[i] to i for every position i, every edge's from_node and to_node are
\* the positions of its from_asset and to_asset, and nodes_mapping applied to
\* an edge's asset gives that edge's node index.
C12_NodeIndexIsPosition ==
    gb.pc = "returned" =>
        /\ \A n \in 0..(Len(gb.assets) - 1) :
               <<AssetKey(gb.assets[n + 1]), n>> \in gb.nodes_mapping
        /\ EdgesNamePositions
        /\ \A i \in DOMAIN gb.edges_list :
               LET e == gb.edges_list[i] IN
               /\ <<AssetKey(e.from_asset), e.from_node>> \in gb.nodes_mapping
               /\ <<AssetKey(e.to_asset), e.to_node>> \in gb.nodes_mapping

\* the edges are in the order of the two loops: by from_node, then by to_node
EdgesOrdered(edges_list) ==
    \A i, j \in DOMAIN edges_list :
        i < j => \/ edges_list[i].from_node < edges_list[j].from_node
                 \/ /\ edges_list[i].from_node = edges_list[j].from_node
                    /\ edges_list[i].to_node < edges_list[j].to_node

InFlight(r) == run[r].pc \notin {"idle", "done", "failed"}

\* value v is Run State that run r has published: a graph history, report table
\* or price history of one of its steps, or a run_progress it has set
PublishedBy(v, r) ==
    \/ ProducedBy(v, r)
    \/ \E i \in DOMAIN run[r].published : run[r].published[i] = v

\* C14: a step of update_run_progress, taken while a run of its session is in
\* flight and has not yet published a progress of 100, erases nothing that run
\* has published: every key holding Run State of the run keeps its value.
C14_PollNeverErasesRunInFlight ==
    [][\A p \in Pollers, r \in Runs :
          (/\ poller[p].cb = "update_run_progress"
           /\ poller'[p] # poller[p]
           /\ InFlight(r)
           /\ run[r].session_id = poller[p].session_id
           /\ \A i \in DOMAIN run[r].published : run[r].published[i] # Hundred)
              => \A k \in DOMAIN cache[run[r].session_id] :
                     PublishedBy(cache[run[r].session_id][k], r)
                         => FscGet(cache'[run[r].session_id], k)
                                = cache[run[r].session_id][k]]_vars

\* 0 <= v <= 100
InRange(v) == NumLeq(Zero, v) /\ NumLeq(v, Hundred)

\* C15: every progress value lies in [0, 100], whatever end_timestamp a step
\* reports: each run_progress a run publishes to the session cache, and each
\* value update_run_progress hands to the progress bar.
C15_ProgressInRange ==
    /\ \A r \in Runs : \A i \in DOMAIN run[r].published : InRange(run[r].published[i])
    /\ \A p \in Pollers :
           (poller[p].cb = "update_run_progress" /\ poller[p].status = "returned")
               => InRange(poller[p].out[1])

\* the number of graphs in a cached graphs_history, 0 when the key holds None
HistoryLength(v) == IF v = None THEN 0 ELSE Len(v[2])

\* C16: during one run the cached graphs_history is append-only: while the run
\* is in flight, no step of the run or of a poller makes the graphs_history of
\* the run's session shorter than the one the run has published, or puts an
\* older one back in its place.
C16_GraphsHistoryAppendOnly ==
    [][\A r \in {1} :
          (/\ InFlight(r)
           /\ run'[r].pc # "idle"
           /\ ProducedBy(FscGet(cache[run[r].session_id], "graphs_history"), r))
              => /\ ProducedBy(FscGet(cache'[run[r].session_id], "graphs_history"), r)
                 /\ HistoryLength(FscGet(cache'[run[r].session_id], "graphs_history"))
                        >= HistoryLength(FscGet(cache[run[r].session_id], "graphs_history"))]_vars

\* C17: update_network never indexes outside the cached graph history: for
\* every cache state and every value of the step slider, the slider callback
\* and the interval callback prevent the update or render an existing entry;
\* neither ends in an IndexError.
C17_UpdateNetworkNeverIndexError ==
    \A p \in Pollers :
        poller[p].cb \in {"update_running_slider", "update_running"}
            => poller[p].status # "IndexError"

\* C18: a run whose request passes validation never ends in a fatal error,
\* whatever the strategy's stream does: also when the stream ends without
\* yielding a step, update_report_state returns.
C18_ValidRunNeverFails ==
    \A r \in Runs : run[r].pc = "failed" => InvalidRequest(r)

\* C19: sessions are isolated: a step of a run, a poll, a page load or a reset
\* changes only the cache of the session it was made for, and a callback reads
\* only values of its own session's cache (what it has read is None or was
\* published by a run of its session).
C19_SessionsIsolated ==
    [][/\ \A s \in Sessions :
              cache'[s] # cache[s] =>
                  \/ \E r \in Runs : run'[r] # run[r] /\ run[r].session_id = s
                  \/ \E p \in Pollers : poller'[p] # poller[p] /\ poller[p].session_id = s
       /\ \A p \in Pollers : \A i \in DOMAIN poller'[p].seen :
              poller'[p].seen[i] # None =>
                  \E r \in Runs : /\ PublishedBy(poller'[p].seen[i], r)
                                  /\ run[r].session_id = poller'[p].session_id]_vars

\* C19 witness: a run of session s1 has published its Run State and a page load
\* of session s2 has reset the cache of s2
C19_Witness ==
    /\ run[1].session_id = "s1"
    /\ run[1].pc = "done"
    /\ ProducedBy(FscGet(cache["s1"], "report_table"), 1)
    /\ \E p \in Pollers :
           /\ poller[p].session_id = "s2"
           /\ poller[p].cb = "on_page_load"
           /\ poller[p].status = "PreventUpdate"
    /\ "run_progress" \in DOMAIN cache["s2"]

====
